---- MODULE Spec2Model ----
(***************************************************************************)
(* Model of private_gpt/ui/ui.py: the PrivateGptUi singleton (mode, system *)
(* prompt, selected file), its document handlers working against the      *)
(* ingest service, the _chat generator with its nested build_history and   *)
(* yield_deltas, and Source.curate_sources.                                *)
(*                                                                         *)
(* Text that the code cuts or concatenates (message contents, deltas,      *)
(* prompts) is a sequence of one-character strings; file names, which the  *)
(* code only compares, are strings.                                        *)
(***************************************************************************)
EXTENDS Integers, Sequences, FiniteSets, TLC

VARIABLES
    mode,                 \* self.mode
    _system_prompt,       \* self._system_prompt
    _selected_filename,   \* self._selected_filename
    settings,             \* settings().ui default prompts (fixed at start)
    store,                \* the ingest service's records, in list_ingested order
    next_doc_id,          \* next identifier the ingest service hands out
    lastCall,             \* the last handler invoked: name, argument, return value, error, store calls
    turn,                 \* the frame of the _chat generator in flight
    caller_of,            \* the client being served, and the clients served by the last writers
    sources,              \* curate_sources: its argument
    curated_sources,      \* curate_sources: its local list
    chunk_index           \* curate_sources: number of chunks consumed by the for loop

vars == <<mode, _system_prompt, _selected_filename, settings, store, next_doc_id,
          lastCall, turn, caller_of, sources, curated_sources, chunk_index>>

session_vars == <<mode, _system_prompt, _selected_filename, settings>>
store_vars == <<store, next_doc_id>>
curate_vars == <<sources, curated_sources, chunk_index>>

----------------------------------------------------------------------------
(* Bounds *)

MaxPairs == 11       \* longest transcript, in (user, assistant) pairs
MaxFiles == 2        \* most files in one upload
MaxPages == 2        \* most records the ingest service makes of one file
MaxDocId == 5        \* identifiers the ingest service may hand out
MaxChunks == 3       \* longest chunk list given to curate_sources

----------------------------------------------------------------------------
(* Python values *)

None == "None"       \* Python's None where the other values are strings

EmptyText == << >>

MODES == << "Query Files", "Search Files", "LLM Chat (no context from files)" >>

SOURCES_SEPARATOR ==
    << "\n", "\n", " ", "S", "o", "u", "r", "c", "e", "s", ":", " ", "\n" >>

HISTORY_CAP == 20

USER == "user"
ASSISTANT == "assistant"
SYSTEM == "system"

Min(a, b) == IF a <= b THEN a ELSE b

\* s[:n]
Take(s, n) == SubSeq(s, 1, Min(n, Len(s)))

\* s[-n:]
TakeLast(s, n) == SubSeq(s, Len(s) - Min(n, Len(s)) + 1, Len(s))

Range(s) == { s[i] : i \in 1..Len(s) }

----------------------------------------------------------------------------
(* Document metadata: None, or a dict given as its set of (key, value)     *)
(* items.                                                                  *)

NoMetadata == [none |-> TRUE, items |-> {}]

Metadata(items) == [none |-> FALSE, items |-> items]

\* bool(doc_metadata): None and the empty dict are falsy
Truthy(doc_metadata) == ~doc_metadata.none /\ doc_metadata.items # {}

HasKey(doc_metadata, key) == \E kv \in doc_metadata.items : kv[1] = key

\* doc_metadata[key], defined when HasKey
Lookup(doc_metadata, key) == (CHOOSE kv \in doc_metadata.items : kv[1] = key)[2]

\* doc_metadata.get(key, default)
Get(doc_metadata, key, default) ==
    IF HasKey(doc_metadata, key) THEN Lookup(doc_metadata, key) ELSE default

\* The exception doc_metadata["file_name"] raises, "none" when it raises nothing
SubscriptError(doc_metadata) ==
    IF doc_metadata.none THEN "TypeError"
    ELSE IF ~HasKey(doc_metadata, "file_name") THEN "KeyError"
    ELSE "none"

----------------------------------------------------------------------------
(* The ingest service (Document Store): list_ingested, delete, bulk_ingest *)

Record(doc_id, doc_metadata) == [doc_id |-> doc_id, doc_metadata |-> doc_metadata]

list_ingested(st) == st

delete(st, doc_id) == SelectSeq(st, LAMBDA r : r.doc_id # doc_id)

\* The records the service makes of one (name, path): `pages` of them
RECURSIVE IngestOne(_, _, _)
IngestOne(name, pages, first_id) ==
    IF pages = 0 THEN << >>
    ELSE << Record(first_id, Metadata({ <<"file_name", name>> })) >>
         \o IngestOne(name, pages - 1, first_id + 1)

\* bulk_ingest(files): pages[i] records of files[i], appended in order
RECURSIVE bulk_ingest(_, _, _, _)
bulk_ingest(st, files, pages, first_id) ==
    IF files = << >> THEN st
    ELSE bulk_ingest(st \o IngestOne(files[1][1], pages[1], first_id),
                     Tail(files), Tail(pages), first_id + pages[1])

RECURSIVE SumSeq(_)
SumSeq(s) == IF s = << >> THEN 0 ELSE s[1] + SumSeq(Tail(s))

DocIds(st) == { st[i].doc_id : i \in 1..Len(st) }

----------------------------------------------------------------------------
(* Session State Controller *)

\* _get_default_system_prompt with the query default as the fallback case
_get_default_system_prompt_fallback(m) ==
    CASE m = "LLM Chat (no context from files)" -> settings.default_chat_system_prompt
      [] OTHER -> settings.default_query_system_prompt

\* _get_default_system_prompt(mode)
_get_default_system_prompt(m) ==
    CASE m = "Query Files" -> settings.default_query_system_prompt
      [] m = "LLM Chat (no context from files)" -> settings.default_chat_system_prompt
      [] OTHER -> EmptyText

\* The arguments of a handler: those it does not take keep these values
NoArgs == [mode |-> None, system_prompt_input |-> << >>, value |-> None, files |-> << >>]

\* A handler that returns None
NoneRet == [value |-> None]

Call(op, arg, ret, error, store_calls) ==
    [op |-> op, arg |-> arg, ret |-> ret, error |-> error, store_calls |-> store_calls]

\* gr.update(placeholder=..., interactive=...)
Update(placeholder, interactive) == [placeholder |-> placeholder, interactive |-> interactive]

\* The value _set_current_mode returns, once the prompt has been set to p
ModeUpdate(p) ==
    IF p # EmptyText THEN Update(p, TRUE) ELSE Update(p, FALSE)

_set_system_prompt(system_prompt_input) ==
    /\ _system_prompt' = system_prompt_input
    /\ lastCall' = Call("_set_system_prompt",
                        [NoArgs EXCEPT !.system_prompt_input = system_prompt_input],
                        NoneRet, "none", << >>)
    /\ caller_of' = [caller_of EXCEPT !.prompt = caller_of.request]
    /\ UNCHANGED <<mode, _selected_filename, settings, store_vars, turn, curate_vars>>

\* _set_current_mode without the call of _set_system_prompt
_set_current_mode_keep(m) ==
    /\ mode' = m
    /\ _system_prompt' = _system_prompt
    /\ lastCall' = Call("_set_current_mode", [NoArgs EXCEPT !.mode = m],
                        ModeUpdate(_system_prompt'), "none", << >>)
    /\ caller_of' = [caller_of EXCEPT !.prompt = caller_of.request]
    /\ UNCHANGED <<_selected_filename, settings, store_vars, turn, curate_vars>>

_set_current_mode(m) ==
    /\ mode' = m
    /\ _system_prompt' = _get_default_system_prompt(m)
    /\ lastCall' = Call("_set_current_mode", [NoArgs EXCEPT !.mode = m],
                        ModeUpdate(_system_prompt'), "none", << >>)
    /\ caller_of' = [caller_of EXCEPT !.prompt = caller_of.request]
    /\ UNCHANGED <<_selected_filename, settings, store_vars, turn, curate_vars>>

----------------------------------------------------------------------------
(* Document Lifecycle Synchronizer *)

StoreCall(call, doc_id, files) == [call |-> call, doc_id |-> doc_id, files |-> files]

ListCall == StoreCall("list_ingested", 0, << >>)
DeleteCall(doc_id) == StoreCall("delete", doc_id, << >>)
IngestCall(files) == StoreCall("bulk_ingest", 0, files)

DeleteCalls(doc_ids) == [i \in 1..Len(doc_ids) |-> DeleteCall(doc_ids[i])]

\* Path(file).name: the final component of the path
PathName(path) == path[Len(path)]

\* The selection state every delete and deselect handler returns
Deactivated == [delete_button |-> FALSE, deselect_button |-> FALSE, label |-> "All files"]

Activated(name) == [delete_button |-> TRUE, deselect_button |-> TRUE, label |-> name]

\* _list_ingested_files(): the rows, one per distinct file name
_list_ingested_files(st) ==
    { << Get(st[i].doc_metadata, "file_name", "[FILE NAME MISSING]") >> :
        i \in { j \in 1..Len(st) : ~st[j].doc_metadata.none } }

\* The loop of _upload_file marking no record
UploadScan_none(records, file_names, doc_ids_to_delete) ==
    [error |-> "none", doc_ids |-> doc_ids_to_delete]

\* The for loop of _upload_file over list_ingested(): the ids to delete, or
\* the exception the subscript raises
RECURSIVE UploadScan(_, _, _)
UploadScan(records, file_names, doc_ids_to_delete) ==
    IF records = << >> THEN [error |-> "none", doc_ids |-> doc_ids_to_delete]
    ELSE LET md == records[1].doc_metadata IN
         IF ~Truthy(md) THEN UploadScan(Tail(records), file_names, doc_ids_to_delete)
         ELSE IF SubscriptError(md) # "none"
              THEN [error |-> SubscriptError(md), doc_ids |-> doc_ids_to_delete]
         ELSE IF Lookup(md, "file_name") \in Range(file_names)
              THEN UploadScan(Tail(records), file_names,
                              Append(doc_ids_to_delete, records[1].doc_id))
         ELSE UploadScan(Tail(records), file_names, doc_ids_to_delete)

\* delete(doc_id) for each doc_id of the list, in order
RECURSIVE DeleteEach(_, _)
DeleteEach(st, doc_ids) ==
    IF doc_ids = << >> THEN st ELSE DeleteEach(delete(st, doc_ids[1]), Tail(doc_ids))

\* One call of the store: what it leaves of the store
RunCall(st, call, pages, first_id) ==
    CASE call.call = "delete" -> delete(st, call.doc_id)
      [] call.call = "bulk_ingest" -> bulk_ingest(st, call.files, pages, first_id)
      [] OTHER -> st

\* The calls of the list, made in order
RECURSIVE RunCalls(_, _, _, _)
RunCalls(st, calls, pages, first_id) ==
    IF calls = << >> THEN st
    ELSE RunCalls(RunCall(st, calls[1], pages, first_id), Tail(calls), pages, first_id)

\* _upload_file with bulk_ingest called before the delete loop
UploadCalls_ingest_first(doc_ids_to_delete, named) ==
    << ListCall, IngestCall(named) >> \o DeleteCalls(doc_ids_to_delete)

\* The store calls of _upload_file, in the order of its statements: the
\* list_ingested() of the first loop, the delete loop, bulk_ingest
UploadCalls(doc_ids_to_delete, named) ==
    << ListCall >> \o DeleteCalls(doc_ids_to_delete) \o << IngestCall(named) >>

\* _upload_file restoring the store when a store call raises
UploadOutcome_rollback(st, files, pages, first_id, failing) ==
    LET file_names == [i \in 1..Len(files) |-> PathName(files[i])]
        scan == UploadScan(list_ingested(st), file_names, << >>)
        named == [i \in 1..Len(files) |-> << file_names[i], files[i] >>]
        calls == UploadCalls(scan.doc_ids, named)
    IN  IF failing = 1
        THEN [store |-> st, error |-> "StoreError", store_calls |-> << ListCall >>,
              ingested |-> 0]
        ELSE IF scan.error # "none"
        THEN [store |-> st, error |-> scan.error, store_calls |-> << ListCall >>,
              ingested |-> 0]
        ELSE IF failing \in 2..Len(calls)
        THEN [store |-> st, error |-> "StoreError",
              store_calls |-> SubSeq(calls, 1, failing), ingested |-> 0]
        ELSE [store |-> RunCalls(st, calls, pages, first_id), error |-> "none",
              store_calls |-> calls, ingested |-> SumSeq(pages)]

\* _upload_file(files): the store, the store calls and the error it ends
\* with. failing is the position of the store call that raises (0 when none
\* does, as when the upload makes fewer calls): the calls before it have
\* been made, it and the calls after it have not, and no statement of
\* _upload_file catches the exception.
UploadOutcome(st, files, pages, first_id, failing) ==
    LET file_names == [i \in 1..Len(files) |-> PathName(files[i])]
        scan == UploadScan(list_ingested(st), file_names, << >>)
        named == [i \in 1..Len(files) |-> << file_names[i], files[i] >>]
        calls == UploadCalls(scan.doc_ids, named)
        made == SubSeq(calls, 1, failing - 1)
    IN  IF failing = 1
        THEN [store |-> st, error |-> "StoreError", store_calls |-> << ListCall >>,
              ingested |-> 0]
        ELSE IF scan.error # "none"
        THEN [store |-> st, error |-> scan.error, store_calls |-> << ListCall >>,
              ingested |-> 0]
        ELSE IF failing \in 2..Len(calls)
        THEN [store |-> RunCalls(st, made, pages, first_id), error |-> "StoreError",
              store_calls |-> SubSeq(calls, 1, failing),
              ingested |-> IF \E i \in 1..Len(made) : made[i].call = "bulk_ingest"
                           THEN SumSeq(pages) ELSE 0]
        ELSE [store |-> RunCalls(st, calls, pages, first_id), error |-> "none",
              store_calls |-> calls, ingested |-> SumSeq(pages)]

_upload_file(files, pages, failing) ==
    LET out == UploadOutcome(store, files, pages, next_doc_id, failing) IN
    /\ next_doc_id + SumSeq(pages) - 1 <= MaxDocId
    /\ store' = out.store
    /\ next_doc_id' = next_doc_id + out.ingested
    /\ lastCall' = Call("_upload_file", [NoArgs EXCEPT !.files = files], NoneRet, out.error,
                        out.store_calls)
    /\ UNCHANGED <<session_vars, turn, curate_vars, caller_of>>

\* _delete_all_files(): delete every record of the list, then list the files
DeleteAllOutcome(st) ==
    LET ingested_files == list_ingested(st)
        doc_ids == [i \in 1..Len(ingested_files) |-> ingested_files[i].doc_id]
        after == DeleteEach(st, doc_ids)
    IN  [store |-> after, error |-> "none",
         store_calls |-> << ListCall >> \o DeleteCalls(doc_ids) \o << ListCall >>,
         ret |-> [files |-> _list_ingested_files(after), selection |-> Deactivated]]

_delete_all_files ==
    LET out == DeleteAllOutcome(store) IN
    /\ store' = out.store
    /\ lastCall' = Call("_delete_all_files", NoArgs, out.ret, out.error, out.store_calls)
    /\ UNCHANGED <<session_vars, next_doc_id, turn, curate_vars, caller_of>>

\* The for loop of _delete_selected_file left after its first delete
RECURSIVE DeleteSelectedScan_break(_, _, _, _)
DeleteSelectedScan_break(records, selected, st, calls) ==
    IF records = << >> THEN [store |-> st, error |-> "none", store_calls |-> calls]
    ELSE LET md == records[1].doc_metadata IN
         IF ~Truthy(md) THEN DeleteSelectedScan_break(Tail(records), selected, st, calls)
         ELSE IF SubscriptError(md) # "none"
              THEN [store |-> st, error |-> SubscriptError(md), store_calls |-> calls]
         ELSE IF Lookup(md, "file_name") = selected
              THEN [store |-> delete(st, records[1].doc_id), error |-> "none",
                    store_calls |-> Append(calls, DeleteCall(records[1].doc_id))]
         ELSE DeleteSelectedScan_break(Tail(records), selected, st, calls)

\* The for loop of _delete_selected_file over list_ingested(): each matching
\* record is deleted as it is met, until the subscript raises
RECURSIVE DeleteSelectedScan(_, _, _, _)
DeleteSelectedScan(records, selected, st, calls) ==
    IF records = << >> THEN [store |-> st, error |-> "none", store_calls |-> calls]
    ELSE LET md == records[1].doc_metadata IN
         IF ~Truthy(md) THEN DeleteSelectedScan(Tail(records), selected, st, calls)
         ELSE IF SubscriptError(md) # "none"
              THEN [store |-> st, error |-> SubscriptError(md), store_calls |-> calls]
         ELSE IF Lookup(md, "file_name") = selected
              THEN DeleteSelectedScan(Tail(records), selected,
                                      delete(st, records[1].doc_id),
                                      Append(calls, DeleteCall(records[1].doc_id)))
         ELSE DeleteSelectedScan(Tail(records), selected, st, calls)

DeleteSelectedOutcome(st, selected) ==
    LET scan == DeleteSelectedScan(list_ingested(st), selected, st, << ListCall >>) IN
    IF scan.error # "none"
    THEN [store |-> scan.store, error |-> scan.error, store_calls |-> scan.store_calls,
          ret |-> NoneRet]
    ELSE [store |-> scan.store, error |-> "none",
          store_calls |-> Append(scan.store_calls, ListCall),
          ret |-> [files |-> _list_ingested_files(scan.store), selection |-> Deactivated]]

_delete_selected_file ==
    LET out == DeleteSelectedOutcome(store, _selected_filename) IN
    /\ store' = out.store
    /\ lastCall' = Call("_delete_selected_file", NoArgs, out.ret, out.error, out.store_calls)
    /\ UNCHANGED <<session_vars, next_doc_id, turn, curate_vars, caller_of>>

_deselect_selected_file ==
    /\ _selected_filename' = None
    /\ lastCall' = Call("_deselect_selected_file", NoArgs, Deactivated, "none", << >>)
    /\ caller_of' = [caller_of EXCEPT !.selection = caller_of.request]
    /\ UNCHANGED <<mode, _system_prompt, settings, store_vars, turn, curate_vars>>

_selected_a_file(value) ==
    /\ _selected_filename' = value
    /\ lastCall' = Call("_selected_a_file", [NoArgs EXCEPT !.value = value], Activated(value),
                        "none", << >>)
    /\ caller_of' = [caller_of EXCEPT !.selection = caller_of.request]
    /\ UNCHANGED <<mode, _system_prompt, settings, store_vars, turn, curate_vars>>

\* The listFiles operation: _list_ingested_files() called as a handler
ListIngestedFiles ==
    /\ lastCall' = Call("_list_ingested_files", NoArgs,
                        [files |-> _list_ingested_files(store)], "none",
                        << ListCall >>)
    /\ UNCHANGED <<session_vars, store_vars, turn, curate_vars, caller_of>>

----------------------------------------------------------------------------
(* Source Curator *)

Chunk(doc_metadata, text) == [document |-> [doc_metadata |-> doc_metadata], text |-> text]

Source(file, page, text) == [file |-> file, page |-> page, text |-> text]

\* The Source the loop body builds of one chunk
SourceOf(chunk) ==
    LET doc_metadata == chunk.document.doc_metadata
        file_name == IF Truthy(doc_metadata) THEN Get(doc_metadata, "file_name", "-") ELSE "-"
        page_label == IF Truthy(doc_metadata) THEN Get(doc_metadata, "page_label", "-") ELSE "-"
    IN  Source(file_name, page_label, chunk.text)

\* list(dict.fromkeys(l).keys()): the first occurrence of each element, in order
RECURSIVE FromKeys(_, _)
FromKeys(l, keys) ==
    IF l = << >> THEN keys
    ELSE IF l[1] \in Range(keys) THEN FromKeys(Tail(l), keys)
    ELSE FromKeys(Tail(l), Append(keys, l[1]))

\* The loop body without the dict.fromkeys line
CurateChunk_append(curated, chunk) == Append(curated, SourceOf(chunk))

\* One iteration of the for loop of curate_sources
CurateChunk(curated, chunk) == FromKeys(Append(curated, SourceOf(chunk)), << >>)

\* Source.curate_sources(sources)
RECURSIVE CurateFrom(_, _)
CurateFrom(curated, chunks) ==
    IF chunks = << >> THEN curated
    ELSE CurateFrom(CurateChunk(curated, chunks[1]), Tail(chunks))

curate_sources(chunks) == CurateFrom(<< >>, chunks)

----------------------------------------------------------------------------
(* History Builder: build_history and the message list of _chat *)

ChatMessage(content, role) == [content |-> content, role |-> role]

\* True when sep occurs in text at position i
OccursAt(text, sep, i) ==
    /\ i + Len(sep) - 1 <= Len(text)
    /\ SubSeq(text, i, i + Len(sep) - 1) = sep

\* text.rsplit(sep, 1)[0]: the part of text before the last occurrence of sep
SplitFirst_last(text, sep) ==
    LET hits == { i \in 1..Len(text) : OccursAt(text, sep, i) } IN
    IF hits = {} THEN text
    ELSE SubSeq(text, 1, (CHOOSE i \in hits : \A j \in hits : i >= j) - 1)

\* text.split(sep)[0]: the part of text before the first occurrence of sep
SplitFirst(text, sep) ==
    LET hits == { i \in 1..Len(text) : OccursAt(text, sep, i) } IN
    IF hits = {} THEN text
    ELSE SubSeq(text, 1, (CHOOSE i \in hits : \A j \in hits : i <= j) - 1)

\* The two messages the comprehension makes of one interaction
InteractionMessages(interaction) ==
    << ChatMessage(interaction[1], USER),
       ChatMessage(SplitFirst(interaction[2], SOURCES_SEPARATOR), ASSISTANT) >>

\* itertools.chain(*[...]) over the interactions of history
RECURSIVE ChainMessages(_)
ChainMessages(history) ==
    IF history = << >> THEN << >>
    ELSE InteractionMessages(history[1]) \o ChainMessages(Tail(history))

\* build_history() without the slice
build_history_uncapped(history) == ChainMessages(history)

\* build_history(): history_messages[:20]
build_history(history) == Take(ChainMessages(history), HISTORY_CAP)

\* all_messages with the system message appended instead of inserted at 0
AllMessages_system_last(message, history, system_prompt) ==
    LET new_message == ChatMessage(message, USER)
        all_messages == Append(build_history(history), new_message)
    IN  IF system_prompt # EmptyText
        THEN Append(all_messages, ChatMessage(system_prompt, SYSTEM))
        ELSE all_messages

\* all_messages, as passed to stream_chat
AllMessages(message, history, system_prompt) ==
    LET new_message == ChatMessage(message, USER)
        all_messages == Append(build_history(history), new_message)
    IN  IF system_prompt # EmptyText
        THEN << ChatMessage(system_prompt, SYSTEM) >> \o all_messages
        ELSE all_messages

----------------------------------------------------------------------------
(* Turn Router: _chat up to its backend call *)

NoFilter == [none |-> TRUE, docs_ids |-> << >>]

ContextFilter(docs_ids) == [none |-> FALSE, docs_ids |-> docs_ids]

\* The for loop of _chat over list_ingested(): the ids of the selected file,
\* or the exception the subscript raises
RECURSIVE FilterScan(_, _, _)
FilterScan(records, selected, docs_ids) ==
    IF records = << >> THEN [error |-> "none", docs_ids |-> docs_ids]
    ELSE LET md == records[1].doc_metadata IN
         IF SubscriptError(md) # "none"
         THEN [error |-> SubscriptError(md), docs_ids |-> docs_ids]
         ELSE IF Lookup(md, "file_name") = selected
              THEN FilterScan(Tail(records), selected, Append(docs_ids, records[1].doc_id))
         ELSE FilterScan(Tail(records), selected, docs_ids)

\* context_filter of the "Query Files" case, with the error of its loop
QueryFilter(st, selected) ==
    IF selected = None THEN [error |-> "none", context_filter |-> NoFilter]
    ELSE LET scan == FilterScan(list_ingested(st), selected, << >>) IN
         [error |-> scan.error, context_filter |-> ContextFilter(scan.docs_ids)]

\* _chat without the assignment that opens it: the mode argument is kept
ForcedMode_arg(mode_arg) == mode_arg

\* mode = "Query Files": the assignment that opens _chat
ForcedMode(mode_arg) == "Query Files"

IdleTurn ==
    [pc |-> "idle", message |-> << >>, history |-> << >>, mode |-> None,
     all_messages |-> << >>, use_context |-> FALSE, context_filter |-> NoFilter,
     backend_calls |-> 0, response |-> << >>, consumed |-> 0, full_response |-> << >>,
     emitted |-> << >>, error |-> "none"]

\* The frame of _chat once it has run to its first yield (or raised)
ChatFrame(message, history, mode_arg, system_prompt, selected, st, response, retrieved) ==
    LET m == ForcedMode(mode_arg)
        all_messages == AllMessages(message, history, system_prompt)
        base == [IdleTurn EXCEPT !.message = message, !.history = history, !.mode = m]
        qf == QueryFilter(st, selected)
    IN  CASE m = "Query Files" ->
               IF qf.error # "none"
               THEN [base EXCEPT !.pc = "raised", !.error = qf.error]
               ELSE [base EXCEPT !.pc = "streaming", !.all_messages = all_messages,
                                 !.use_context = TRUE,
                                 !.context_filter = qf.context_filter,
                                 !.backend_calls = 1, !.response = response]
          [] m = "LLM Chat (no context from files)" ->
               [base EXCEPT !.pc = "streaming", !.all_messages = all_messages,
                            !.use_context = FALSE, !.backend_calls = 1,
                            !.response = response]
          [] m = "Search Files" ->
               [base EXCEPT !.pc = "done",
                            !.emitted = << curate_sources(retrieved) >>]
          [] OTHER -> [base EXCEPT !.pc = "done"]

\* _chat on a session of the client's own: another client's writes unseen
_chat_isolated(message, history, mode_arg, response, retrieved) ==
    LET own_prompt == IF caller_of.prompt = caller_of.request
                      THEN _system_prompt ELSE _get_default_system_prompt(MODES[1])
        own_selected == IF caller_of.selection = caller_of.request
                        THEN _selected_filename ELSE None
    IN  /\ turn' = ChatFrame(message, history, mode_arg, own_prompt, own_selected,
                             store, response, retrieved)
        /\ lastCall' = Call("_chat", [NoArgs EXCEPT !.mode = mode_arg], NoneRet, turn'.error,
                            IF ForcedMode(mode_arg) = "Query Files" /\ own_selected # None
                            THEN << ListCall >> ELSE << >>)
        /\ caller_of' = [caller_of EXCEPT !.turn = caller_of.request]
        /\ UNCHANGED <<session_vars, store_vars, curate_vars>>

_chat(message, history, mode_arg, response, retrieved) ==
    /\ turn' = ChatFrame(message, history, mode_arg, _system_prompt, _selected_filename,
                         store, response, retrieved)
    /\ lastCall' = Call("_chat", [NoArgs EXCEPT !.mode = mode_arg], NoneRet, turn'.error,
                        IF ForcedMode(mode_arg) = "Query Files" /\ _selected_filename # None
                        THEN << ListCall >> ELSE << >>)
    /\ caller_of' = [caller_of EXCEPT !.turn = caller_of.request]
    /\ UNCHANGED <<session_vars, store_vars, curate_vars>>

----------------------------------------------------------------------------
(* Streaming Accumulator: yield_deltas *)

StrDelta(text) == [kind |-> "str", none |-> FALSE, delta |-> text]

\* ChatResponse(delta=text)
ChatResponse(text) == [kind |-> "ChatResponse", none |-> FALSE, delta |-> text]

\* ChatResponse(delta=None)
ChatResponseNone == [kind |-> "ChatResponse", none |-> TRUE, delta |-> << >>]

\* The response iterator raising instead of giving its next delta (the
\* backend failing: at the first position, before anything was generated)
StreamRaises == [kind |-> "raise", none |-> FALSE, delta |-> << >>]

\* What one delta adds to full_response
Fragment(delta) ==
    CASE delta.kind = "str" -> delta.delta
      [] delta.kind = "ChatResponse" -> IF delta.none THEN << >> ELSE delta.delta
      [] OTHER -> << >>

\* The loop body with full_response assigned instead of extended
YieldDelta_assign(t) ==
    LET full_response == Fragment(t.response[t.consumed + 1]) IN
    [t EXCEPT !.full_response = full_response,
              !.consumed = t.consumed + 1,
              !.emitted = Append(t.emitted, full_response)]

\* One iteration of the for loop: accumulate the delta, yield full_response
YieldDelta(t) ==
    LET full_response == t.full_response \o Fragment(t.response[t.consumed + 1]) IN
    [t EXCEPT !.full_response = full_response,
              !.consumed = t.consumed + 1,
              !.emitted = Append(t.emitted, full_response)]

\* The exception of the iterator caught and an apology yielded in its place
StreamRaise_fallback(t) ==
    [t EXCEPT !.pc = "done", !.consumed = t.consumed + 1,
              !.emitted = Append(t.emitted, << "S", "o", "r", "r", "y" >>)]

\* The exception of the iterator leaves yield_deltas and _chat: neither
\* has a try statement
StreamRaise(t) == [t EXCEPT !.pc = "raised", !.error = "BackendError"]

\* The for loop taking the next item of the iterator
NextDelta(t) ==
    IF t.response[t.consumed + 1].kind = "raise" THEN StreamRaise(t) ELSE YieldDelta(t)

\* The generator without the yield after the loop
YieldFinal_none(t) == [t EXCEPT !.pc = "done"]

\* The yield after the loop
YieldFinal(t) ==
    [t EXCEPT !.pc = "done", !.emitted = Append(t.emitted, t.full_response)]

yield_deltas_next ==
    /\ turn.pc = "streaming"
    /\ turn.consumed < Len(turn.response)
    /\ turn' = NextDelta(turn)
    /\ UNCHANGED <<session_vars, store_vars, lastCall, curate_vars, caller_of>>

yield_deltas_last ==
    /\ turn.pc = "streaming"
    /\ turn.consumed = Len(turn.response)
    /\ turn' = YieldFinal(turn)
    /\ UNCHANGED <<session_vars, store_vars, lastCall, curate_vars, caller_of>>

----------------------------------------------------------------------------
(* Clients of the one PrivateGptUi *)

Clients == { "A", "B" }

\* Before any request: the one object, made for every client
OneClient == [request |-> "A", prompt |-> "A", selection |-> "A", turn |-> "A"]

\* The event of another client is taken up: the handlers that follow are
\* methods of the same object
Request(client) ==
    /\ client # caller_of.request
    /\ caller_of' = [caller_of EXCEPT !.request = client]
    /\ UNCHANGED <<session_vars, store_vars, lastCall, turn, curate_vars>>

----------------------------------------------------------------------------
(* Source Curator, one loop iteration at a time *)

curate_sources_next ==
    /\ lastCall.op = "__init__"
    /\ chunk_index < Len(sources)
    /\ curated_sources' = CurateChunk(curated_sources, sources[chunk_index + 1])
    /\ chunk_index' = chunk_index + 1
    /\ UNCHANGED <<session_vars, store_vars, lastCall, turn, sources, caller_of>>

curate_sources_return ==
    /\ lastCall.op = "__init__"
    /\ chunk_index = Len(sources)
    /\ lastCall' = Call("curate_sources", NoArgs, [curated_sources |-> curated_sources], "none",
                        << >>)
    /\ UNCHANGED <<session_vars, store_vars, turn, curate_vars, caller_of>>

----------------------------------------------------------------------------
(* Inputs *)

FileNames == { "a.pdf", "b.pdf" }

Paths == { << "tmp", "a.pdf" >>, << "home", "a.pdf" >>, << "tmp", "b.pdf" >> }

SeqsUpTo(S, n) == UNION { [1..k -> S] : k \in 0..n }

Uploads == SeqsUpTo(Paths, MaxFiles) \ { << >> }

PromptInputs == { EmptyText, << "B", "e", " ", "b", "r", "i", "e", "f" >> }

DefaultQueryPrompts == { EmptyText, << "Q", "u", "e", "r", "y" >> }

DefaultChatPrompts == { EmptyText, << "C", "h", "a", "t" >> }

DigitChar == << "0", "1", "2", "3", "4", "5", "6", "7", "8", "9" >>

\* str(i) for 0 <= i <= 99
Digits(i) ==
    IF i < 10 THEN << DigitChar[i + 1] >>
    ELSE << DigitChar[(i \div 10) + 1], DigitChar[(i % 10) + 1] >>

\* The assistant text of the i-th interaction: plain, with a sources block,
\* with two delimiters, or with a truncated delimiter before a whole one
AssistantText(i) ==
    LET answer == << "a" >> \o Digits(i) IN
    CASE i % 4 = 1 -> answer
      [] i % 4 = 2 -> answer \o SOURCES_SEPARATOR \o << "1", ".", " ", "d" >>
      [] i % 4 = 3 -> answer \o SOURCES_SEPARATOR \o << "x" >> \o SOURCES_SEPARATOR
      [] OTHER -> answer \o Take(SOURCES_SEPARATOR, Len(SOURCES_SEPARATOR) - 1)
                  \o SOURCES_SEPARATOR \o << "y" >>

Interaction(i) == << << "q" >> \o Digits(i), AssistantText(i) >>

Transcript(n) == [i \in 1..n |-> Interaction(i)]

TranscriptLengths == { 0, 1, 2, MaxPairs - 1, MaxPairs }

Transcripts == { Transcript(n) : n \in TranscriptLengths }

Messages == { << "W", "h", "a", "t", "?" >> }

HelLo == << StrDelta(<< "H", "e", "l" >>), StrDelta(<< "l", "o" >>), StrDelta(<< >>) >>

Responses ==
    { << >>,
      HelLo,
      << ChatResponse(<< "H", "i" >>), ChatResponseNone, StrDelta(<< "!" >>) >>,
      << StreamRaises >>,
      << StrDelta(<< "H", "i" >>), StreamRaises, StrDelta(<< "!" >>) >> }

MetadataValues ==
    { NoMetadata,
      Metadata({}),
      Metadata({ << "file_name", "a.pdf" >> }),
      Metadata({ << "file_name", "a.pdf" >>, << "page_label", "1" >> }),
      Metadata({ << "page_label", "1" >> }) }

Chunks == { Chunk(md, text) : md \in MetadataValues, text \in { "x", "y" } }

ChunkLists == SeqsUpTo(Chunks, MaxChunks)

\* The store call of an upload that raises: none, or any call up to the
\* bulk_ingest that follows the deletes of three records
FailingCalls == 0..5

NamedRecord(doc_id, name) == Record(doc_id, Metadata({ << "file_name", name >> }))

\* The stores the service may hold when the UI starts
InitialStores ==
    { << >>,
      << NamedRecord(1, "a.pdf"), NamedRecord(2, "a.pdf"), NamedRecord(3, "b.pdf") >>,
      << NamedRecord(1, "a.pdf"), Record(2, NoMetadata), NamedRecord(3, "b.pdf") >>,
      << NamedRecord(1, "a.pdf"), Record(2, Metadata({ << "page_label", "1" >> })) >>,
      << Record(1, Metadata({})), NamedRecord(2, "b.pdf") >> }

----------------------------------------------------------------------------
(* Specifications *)

\* PrivateGptUi.__init__
InitUi ==
    /\ settings \in [default_query_system_prompt : DefaultQueryPrompts,
                     default_chat_system_prompt : DefaultChatPrompts]
    /\ mode = MODES[1]
    /\ _system_prompt = _get_default_system_prompt(mode)
    /\ _selected_filename = None
    /\ lastCall = Call("__init__", NoArgs, NoneRet, "none", << >>)
    /\ turn = IdleTurn
    /\ caller_of = OneClient

NoCurate ==
    /\ sources = << >>
    /\ curated_sources = << >>
    /\ chunk_index = 0

\* Every handler, on one-file uploads and one short transcript
SmallStores ==
    { << >>,
      << NamedRecord(1, "a.pdf"), NamedRecord(2, "a.pdf") >>,
      << NamedRecord(1, "a.pdf"), Record(2, NoMetadata) >> }

SmallUploads == { << << "tmp", "a.pdf" >> >> }

Init ==
    /\ InitUi
    /\ store \in SmallStores
    /\ next_doc_id = Len(store) + 1
    /\ NoCurate

Next ==
    \/ \E m \in Range(MODES) : _set_current_mode(m)
    \/ \E p \in PromptInputs : _set_system_prompt(p)
    \/ _selected_a_file("a.pdf")
    \/ _deselect_selected_file
    \/ \E files \in SmallUploads : _upload_file(files, [i \in 1..Len(files) |-> 1], 0)
    \/ _delete_all_files
    \/ _delete_selected_file
    \/ ListIngestedFiles
    \/ \E mode_arg \in Range(MODES) :
           _chat(<< "W", "?" >>, Transcript(2), mode_arg, << StrDelta(<< "H", "i" >>) >>, << >>)
    \/ yield_deltas_next
    \/ yield_deltas_last

Spec == Init /\ [][Next]_vars

\* Both default prompts configured
TypicalSettings ==
    [default_query_system_prompt |-> << "Q", "u", "e", "r", "y" >>,
     default_chat_system_prompt |-> << "C", "h", "a", "t" >>]

\* The document handlers, on every upload and every initial store
InitDocs ==
    /\ settings = TypicalSettings
    /\ InitUi
    /\ store \in InitialStores
    /\ next_doc_id = Len(store) + 1
    /\ NoCurate

NextDocs ==
    \/ \E value \in FileNames : _selected_a_file(value)
    \/ _deselect_selected_file
    \/ \E files \in Uploads : \E pages \in [1..Len(files) -> 1..MaxPages] :
           _upload_file(files, pages, 0)
    \/ _delete_all_files
    \/ _delete_selected_file
    \/ ListIngestedFiles

SpecDocs == InitDocs /\ [][NextDocs]_vars

\* Uploads whose store calls may raise, one page a file
FailUploads == { files \in Uploads : Len(files) <= 2 }

NextFail ==
    \/ \E files \in FailUploads : \E failing \in FailingCalls :
           _upload_file(files, [i \in 1..Len(files) |-> 1], failing)
    \/ ListIngestedFiles

SpecFail == InitDocs /\ [][NextFail]_vars

\* Two clients whose requests interleave, on one stored file
InitShared ==
    /\ settings = TypicalSettings
    /\ InitUi
    /\ store = << NamedRecord(1, "a.pdf"), NamedRecord(2, "b.pdf") >>
    /\ next_doc_id = 3
    /\ NoCurate

NextShared ==
    \/ \E client \in Clients : Request(client)
    \/ \E m \in Range(MODES) : _set_current_mode(m)
    \/ \E p \in PromptInputs : _set_system_prompt(p)
    \/ _selected_a_file("a.pdf")
    \/ _deselect_selected_file
    \/ _chat(<< "W", "?" >>, << >>, MODES[1], << StrDelta(<< "H", "i" >>) >>, << >>)
    \/ yield_deltas_next
    \/ yield_deltas_last

SpecShared == InitShared /\ [][NextShared]_vars

\* The _chat generator, on every transcript and every response stream
InitTurn ==
    /\ InitUi
    /\ store = << >>
    /\ next_doc_id = 1
    /\ NoCurate

NextTurn ==
    \/ \E p \in PromptInputs : _set_system_prompt(p)
    \/ \E message \in Messages, history \in Transcripts, mode_arg \in Range(MODES),
          response \in Responses :
           _chat(message, history, mode_arg, response, << >>)
    \/ yield_deltas_next
    \/ yield_deltas_last

SpecTurn == InitTurn /\ [][NextTurn]_vars

\* Source.curate_sources, on every chunk list
InitCurate ==
    /\ settings = TypicalSettings
    /\ InitUi
    /\ store = << >>
    /\ next_doc_id = 1
    /\ sources \in ChunkLists
    /\ curated_sources = << >>
    /\ chunk_index = 0

NextCurate ==
    \/ curate_sources_next
    \/ curate_sources_return

SpecCurate == InitCurate /\ [][NextCurate]_vars

----------------------------------------------------------------------------
(* Properties of the _chat generator (SpecTurn) *)

\* The frame has reached the backend call
Called == turn.pc \in { "streaming", "done" }

\* The messages of all_messages that build_history() supplied: all but the
\* system message in front and the new message at the end
HistoryPart(all_messages) ==
    LET body == SubSeq(all_messages, 1, Len(all_messages) - 1) IN
    IF body # << >> /\ body[1].role = SYSTEM THEN Tail(body) ELSE body

\* _chat has reached the backend call and no handler has run since: the
\* session and the store are those the call read
JustCalled == Called /\ lastCall.op = "_chat"

\* C1: of a transcript whose expansion has more than 20 messages the history
\* holds the 20 most recent ones (the last 20 of the flattened sequence), and
\* of a transcript of at most 10 pairs it holds every message.
C1_KeepsMostRecent ==
    Called => HistoryPart(turn.all_messages)
                  = TakeLast(ChainMessages(turn.history), HISTORY_CAP)

\* C10: when _chat builds its messages from a transcript of n pairs, the
\* sequence without the new user message is at most min(2n, 20) long, plus 1
\* if the system prompt is non-empty.
C10_HistoryLengthBound ==
    JustCalled =>
        Len(turn.all_messages) - 1
            <= Min(2 * Len(turn.history), 20)
               + (IF _system_prompt # EmptyText THEN 1 ELSE 0)

C10_Witness ==
    /\ JustCalled
    /\ Len(turn.history) > 10
    /\ turn.all_messages[1].role = SYSTEM
    /\ Len(turn.all_messages) = 22

\* d1, d1 d2, ..., d1 .. dn
RECURSIVE Total(_)
Total(deltas) ==
    IF deltas = << >> THEN << >>
    ELSE Total(SubSeq(deltas, 1, Len(deltas) - 1)) \o Fragment(deltas[Len(deltas)])

Cumulative(deltas) == [i \in 1..Len(deltas) |-> Total(SubSeq(deltas, 1, i))]

\* C4 as stated: for deltas d1..dn the generator emits exactly the n
\* cumulative concatenations, three values for ["Hel", "lo", ""].
C4_ExactlyCumulative ==
    turn.pc = "done" => turn.emitted = Cumulative(turn.response)

\* C4 amended: while streaming the emitted values are the cumulative
\* concatenations of the deltas consumed, and the finished generator has
\* emitted d1, d1 d2, ..., d1 .. dn and then d1 .. dn once more; for
\* ["Hel", "lo", ""] that is "Hel", "Hello", "Hello", "Hello".
C4_CumulativeThenFinal ==
    /\ turn.pc = "streaming" =>
           turn.emitted = Cumulative(SubSeq(turn.response, 1, turn.consumed))
    /\ turn.pc = "done" =>
           /\ turn.emitted = Append(Cumulative(turn.response), Total(turn.response))
           /\ turn.response = HelLo =>
                  turn.emitted = << << "H", "e", "l" >>,
                                    << "H", "e", "l", "l", "o" >>,
                                    << "H", "e", "l", "l", "o" >>,
                                    << "H", "e", "l", "l", "o" >> >>

C4_Witness == turn.pc = "done" /\ turn.response = HelLo /\ Len(turn.emitted) = 4

\* C11: for every transcript pair the history holds, the pair gives the user
\* message with the user text unchanged and then the assistant message, in
\* the order of the transcript; the assistant content is the assistant text
\* up to its first SOURCES_SEPARATOR (no delimiter starts in or before the
\* kept part, nothing after it is kept) and the whole text when it has none.
C11_AssistantCutAtDelimiter ==
    Called =>
        LET h == HistoryPart(turn.all_messages) IN
        /\ Len(h) % 2 = 0
        /\ \A k \in 1..(Len(h) \div 2) :
               LET text == turn.history[k][2]
                   cut == h[2 * k].content
               IN  /\ h[2 * k - 1] = ChatMessage(turn.history[k][1], USER)
                   /\ h[2 * k].role = ASSISTANT
                   /\ cut = Take(text, Len(cut))
                   /\ \A i \in 1..Len(cut) :
                          ~OccursAt(text, SOURCES_SEPARATOR, i)
                          /\ ~OccursAt(cut, SOURCES_SEPARATOR, i)
                   /\ cut # text => OccursAt(text, SOURCES_SEPARATOR, Len(cut) + 1)

\* The third pair's assistant text has two delimiters and is cut at the first
C11_Witness ==
    /\ Called
    /\ Len(turn.history) >= 3
    /\ \E i \in 1..Len(turn.history[3][2]) : \E j \in (i + 1)..Len(turn.history[3][2]) :
           /\ OccursAt(turn.history[3][2], SOURCES_SEPARATOR, i)
           /\ OccursAt(turn.history[3][2], SOURCES_SEPARATOR, j)
    /\ HistoryPart(turn.all_messages)[5].content = << "q", "3" >>
    /\ HistoryPart(turn.all_messages)[6].content = << "a", "3" >>

\* C12: every value the generator emits is a prefix of the next one, and the
\* last value of a finished generator is the concatenation, in order, of all
\* the fragments (a str as it is, a ChatResponse by its delta, a None delta
\* as the empty text).
C12_EmittedGrowsToTotal ==
    /\ \A i \in 1..(Len(turn.emitted) - 1) :
           turn.emitted[i] = Take(turn.emitted[i + 1], Len(turn.emitted[i]))
    /\ turn.pc = "done" =>
           /\ turn.emitted # << >>
           /\ turn.emitted[Len(turn.emitted)] = Total(turn.response)

C12_Witness ==
    /\ turn.pc = "done"
    /\ turn.response = << ChatResponse(<< "H", "i" >>), ChatResponseNone, StrDelta(<< "!" >>) >>
    /\ turn.emitted = << << "H", "i" >>, << "H", "i" >>, << "H", "i", "!" >>,
                         << "H", "i", "!" >> >>

\* The backend call of the turn fails: its stream raises at some position
BackendFails(t) ==
    /\ t.backend_calls > 0
    /\ \E i \in 1..Len(t.response) : t.response[i].kind = "raise"

FailsAt(t) ==
    CHOOSE i \in 1..Len(t.response) :
        /\ t.response[i].kind = "raise"
        /\ \A j \in 1..(i - 1) : t.response[j].kind # "raise"

\* C15: when the backend generation call of a turn fails, the failure
\* propagates: the generator never completes, it ends raised with the
\* backend's error and then does nothing more, it makes no second backend
\* call, it emits only what the deltas before the failure gave (no
\* substitute output), and the session state and the store stay unchanged.
C15_BackendFailurePropagates ==
    /\ [](BackendFails(turn) =>
              /\ turn.pc \in { "streaming", "raised" }
              /\ turn.pc = "raised" <=> turn.error = "BackendError"
              /\ turn.backend_calls = 1
              /\ turn.consumed < FailsAt(turn)
              /\ turn.emitted = Cumulative(SubSeq(turn.response, 1, turn.consumed)))
    /\ [][/\ BackendFails(turn) /\ turn.pc = "streaming" /\ turn' # turn
              /\ turn.consumed + 1 = FailsAt(turn) =>
                 /\ UNCHANGED <<session_vars, store_vars>>
                 /\ \/ /\ turn'.error = "BackendError"
                       /\ turn'.emitted = turn.emitted
                       /\ turn'.backend_calls = turn.backend_calls
                    \/ /\ lastCall'.op = "_chat"
                       /\ turn'.error # "BackendError"
                       /\ turn'.consumed = 0
                       /\ turn'.emitted = << >>
          /\ turn.error = "BackendError" /\ turn' # turn =>
                 /\ lastCall'.op = "_chat"
                 /\ turn'.consumed = 0
                 /\ turn'.emitted = << >>]_vars

\* The backend failed after one delta, under a custom prompt
C15_Witness ==
    /\ turn.error = "BackendError"
    /\ turn.emitted = << << "H", "i" >> >>
    /\ turn.consumed < Len(turn.response)
    /\ _system_prompt = << "B", "e", " ", "b", "r", "i", "e", "f" >>

\* C20: the list passed to stream_chat has one system message, at position
\* 0, when the system prompt is non-empty and none when it is empty; the
\* system message is added to the capped history, so the cap never drops
\* it; the new user message is always the last element.
C20_SystemFirstUserLast ==
    JustCalled =>
        LET all == turn.all_messages
            systems == { i \in 1..Len(all) : all[i].role = SYSTEM }
        IN  /\ _system_prompt # EmptyText =>
                   systems = { 1 } /\ all[1] = ChatMessage(_system_prompt, SYSTEM)
            /\ _system_prompt = EmptyText => systems = {}
            /\ all[Len(all)] = ChatMessage(turn.message, USER)
            /\ Len(all) = Len(build_history(turn.history)) + 1 + Cardinality(systems)

\* A transcript over the cap, a custom prompt: the system message is kept
C20_Witness ==
    /\ JustCalled
    /\ Len(ChainMessages(turn.history)) > HISTORY_CAP
    /\ _system_prompt = << "B", "e", " ", "b", "r", "i", "e", "f" >>
    /\ turn.all_messages[1].role = SYSTEM
    /\ turn.all_messages[HISTORY_CAP + 2] = ChatMessage(turn.message, USER)

----------------------------------------------------------------------------
(* Properties of the selection and of the document filter *)

\* C2: once _delete_selected_file or _delete_all_files has returned, no
\* file is selected.
C2_SelectionCleared ==
    /\ lastCall.op \in { "_delete_selected_file", "_delete_all_files" }
    /\ lastCall.error = "none"
    => _selected_filename = None

\* The state of the delete and deselect buttons a selection handler returns
Controls(call) ==
    IF call.op \in { "_delete_selected_file", "_delete_all_files" }
    THEN call.ret.selection ELSE call.ret

\* C14: whenever the last operation is a select, a deselect or a delete that
\* returned, the delete button and the deselect button it returned are
\* enabled exactly when a file name is selected.
C14_ControlsFollowSelection ==
    /\ lastCall.op \in { "_selected_a_file", "_deselect_selected_file",
                         "_delete_selected_file", "_delete_all_files" }
    /\ lastCall.error = "none"
    => /\ Controls(lastCall).delete_button = (_selected_filename # None)
       /\ Controls(lastCall).deselect_button = (_selected_filename # None)

\* Some ingested record carries the file name
Ingested(st, name) ==
    \E i \in 1..Len(st) : /\ HasKey(st[i].doc_metadata, "file_name")
                          /\ Lookup(st[i].doc_metadata, "file_name") = name

\* C3: the filter _chat passes to stream_chat is None when no file is
\* selected and also when no ingested record has the selected file name.
C3_UnfilteredWhenNoMatch ==
    JustCalled /\ (_selected_filename = None \/ ~Ingested(store, _selected_filename))
    => turn.context_filter = NoFilter

\* C5: no handler raises because a record has no metadata or metadata
\* without the file-name key (the TypeError and the KeyError of the subscript).
C5_MetadataTolerated == lastCall.error \notin { "TypeError", "KeyError" }

----------------------------------------------------------------------------
(* Upload replaces (SpecDocs) *)

FileNameOf(record) == Get(record.doc_metadata, "file_name", None)

NamedIn(st, names) == SelectSeq(st, LAMBDA r : FileNameOf(r) \in names)

NotNamedIn(st, names) == SelectSeq(st, LAMBDA r : FileNameOf(r) \notin names)

\* The step is a call of _upload_file that returned
Uploaded ==
    /\ lastCall'.op = "_upload_file"
    /\ lastCall'.error = "none"
    /\ \E pages \in [1..Len(lastCall'.arg.files) -> 1..MaxPages] :
           _upload_file(lastCall'.arg.files, pages, 0)

\* C6: after an upload that returned, every record the store held under an
\* uploaded name is gone, each uploaded name has records and all of them are
\* new ones, and the records under other names are as they were.
C6_UploadReplaces ==
    [][Uploaded =>
          LET names == { PathName(path) : path \in Range(lastCall'.arg.files) } IN
          /\ \A r \in Range(NamedIn(store, names)) : r \notin Range(store')
          /\ \A r \in Range(NamedIn(store', names)) : r.doc_id \notin DocIds(store)
          /\ \A name \in names : Ingested(store', name)
          /\ NotNamedIn(store', names) = NotNamedIn(store, names)]_vars

C6_Witness ==
    /\ lastCall.op = "_upload_file"
    /\ lastCall.error = "none"
    /\ \E i \in 1..Len(lastCall.store_calls) : lastCall.store_calls[i].call = "delete"
    /\ \E i \in 1..Len(store) : FileNameOf(store[i]) = "b.pdf"
    /\ Ingested(store, "a.pdf")

\* The record has the file-name metadata, and it is the name
Named(record, name) ==
    /\ HasKey(record.doc_metadata, "file_name")
    /\ Lookup(record.doc_metadata, "file_name") = name

\* C19: _delete_selected_file removes no record but those whose file name is
\* the selected one and leaves the others as they were; when it returns it
\* has removed every record of that name, the several records of one file
\* included; with no file selected it removes nothing.
C19_DeletesSelectedOnly ==
    [][lastCall'.op = "_delete_selected_file" =>
          LET gone == { r \in Range(store) : r \notin Range(store') } IN
          /\ \A r \in gone : Named(r, _selected_filename)
          /\ store' = SelectSeq(store, LAMBDA r : r \notin gone)
          /\ lastCall'.error = "none" =>
                 gone = { r \in Range(store) : Named(r, _selected_filename) }
          /\ _selected_filename = None => store' = store]_vars

\* Both records of a.pdf were deleted, the record of b.pdf was not
C19_Witness ==
    /\ lastCall.op = "_delete_selected_file"
    /\ lastCall.error = "none"
    /\ _selected_filename = "a.pdf"
    /\ lastCall.store_calls = << ListCall, DeleteCall(1), DeleteCall(2), ListCall >>
    /\ ~Ingested(store, "a.pdf")
    /\ Ingested(store, "b.pdf")

----------------------------------------------------------------------------
(* Store calls of an upload (SpecFail) *)

\* The step is a call of _upload_file, returning or raising
UploadCalled ==
    /\ lastCall'.op = "_upload_file"
    /\ lastCall' # lastCall \/ store' # store

\* The identifiers of the records held under one of the names, in list order
Marked(st, names) ==
    LET held == NamedIn(st, names) IN [i \in 1..Len(held) |-> held[i].doc_id]

\* C17: an upload whose store call raises undoes nothing: the records its
\* delete calls removed before the failure stay removed and nothing is
\* ingested in their place, so that when bulk_ingest raises after the deletes
\* the store holds neither the old nor the new records of the file name.
C17_NoRollback ==
    /\ [][UploadCalled /\ lastCall'.error = "StoreError" =>
              LET log == lastCall'.store_calls
                  deleted == { log[i].doc_id : i \in 2..(Len(log) - 1) }
                  names == { PathName(path) : path \in Range(lastCall'.arg.files) }
              IN  /\ store' = SelectSeq(store, LAMBDA r : r.doc_id \notin deleted)
                  /\ next_doc_id' = next_doc_id
                  /\ log[Len(log)].call = "bulk_ingest" =>
                         /\ deleted = Range(Marked(store, names))
                         /\ \A name \in names : ~Ingested(store', name)]_vars

\* bulk_ingest raised after both records of a.pdf were deleted: no a.pdf left
C17_Witness ==
    /\ lastCall.op = "_upload_file"
    /\ lastCall.error = "StoreError"
    /\ Len(lastCall.store_calls) = 4
    /\ lastCall.store_calls[2].call = "delete"
    /\ lastCall.store_calls[3].call = "delete"
    /\ lastCall.store_calls[4].call = "bulk_ingest"
    /\ PathName(lastCall.arg.files[1]) = "a.pdf"
    /\ ~Ingested(store, "a.pdf")
    /\ Ingested(store, "b.pdf")

\* C18: the store calls of one upload are, in this order, one list_ingested,
\* the delete of each record held under an uploaded name, and one
\* bulk_ingest with every (name, path) pair: an upload that returns has made
\* them all (the bulk_ingest also when there was nothing to delete), an
\* upload that raises has made the first ones, and bulk_ingest is never
\* followed by a delete.
C18_ScanDeleteIngest ==
    [][UploadCalled =>
          LET files == lastCall'.arg.files
              names == { PathName(path) : path \in Range(files) }
              pairs == [i \in 1..Len(files) |-> << PathName(files[i]), files[i] >>]
              whole == << ListCall >> \o DeleteCalls(Marked(store, names))
                       \o << IngestCall(pairs) >>
              log == lastCall'.store_calls
          IN  /\ log # << >>
              /\ Len(log) <= Len(whole)
              /\ log = SubSeq(whole, 1, Len(log))
              /\ lastCall'.error = "none" => log = whole
              /\ \A i \in 1..Len(log) : log[i].call = "bulk_ingest" => i = Len(log)]_vars

\* An upload of a new name: no delete, and bulk_ingest with both pairs
C18_Witness ==
    /\ lastCall.op = "_upload_file"
    /\ lastCall.error = "none"
    /\ Len(lastCall.arg.files) = 2
    /\ lastCall.store_calls
           = << ListCall,
                IngestCall([i \in 1..2 |-> << PathName(lastCall.arg.files[i]),
                                              lastCall.arg.files[i] >>]) >>

----------------------------------------------------------------------------
(* Mode and system prompt (Spec) *)

CustomPrompt == << "B", "e", " ", "b", "r", "i", "e", "f" >>

\* C7: the system prompt is the text of the last _set_system_prompt call
\* unless _set_current_mode (or __init__) came after it, and then it is the
\* default prompt of the mode; no other handler changes mode or prompt.
C7_PromptFollowsLastSetter ==
    /\ [](/\ lastCall.op = "__init__" =>
                 mode = MODES[1] /\ _system_prompt = _get_default_system_prompt(mode)
          /\ lastCall.op = "_set_current_mode" =>
                 /\ mode = lastCall.arg.mode
                 /\ _system_prompt = _get_default_system_prompt(mode)
          /\ lastCall.op = "_set_system_prompt" =>
                 _system_prompt = lastCall.arg.system_prompt_input)
    /\ [][/\ lastCall'.op \notin { "_set_current_mode", "_set_system_prompt" } =>
                 _system_prompt' = _system_prompt
          /\ lastCall'.op # "_set_current_mode" => mode' = mode]_vars

\* A turn went out with the custom prompt, and the mode was set afterwards
C7_Witness ==
    /\ Called
    /\ turn.all_messages[1] = ChatMessage(CustomPrompt, SYSTEM)
    /\ lastCall.op = "_set_current_mode"
    /\ lastCall.arg.mode = "LLM Chat (no context from files)"
    /\ _system_prompt = << "C", "h", "a", "t" >>

\* C8: _set_current_mode("Search Files") leaves an empty system prompt and
\* reports the prompt field non-interactive, and every _set_current_mode
\* reports it interactive exactly when the mode's default prompt is non-empty.
C8_SearchFilesLocksPrompt ==
    lastCall.op = "_set_current_mode" =>
        /\ lastCall.ret.interactive
               = (_get_default_system_prompt(lastCall.arg.mode) # EmptyText)
        /\ lastCall.arg.mode = "Search Files" =>
               /\ _system_prompt = EmptyText
               /\ lastCall.ret = Update(EmptyText, FALSE)
        /\ lastCall.arg.mode = "Query Files" =>
               lastCall.ret.interactive
                   = (settings.default_query_system_prompt # EmptyText)
        /\ lastCall.arg.mode = "LLM Chat (no context from files)" =>
               lastCall.ret.interactive
                   = (settings.default_chat_system_prompt # EmptyText)

C8_Witness ==
    /\ Called
    /\ turn.all_messages[1] = ChatMessage(CustomPrompt, SYSTEM)
    /\ lastCall.op = "_set_current_mode"
    /\ lastCall.arg.mode = "Search Files"
    /\ settings.default_query_system_prompt # EmptyText

\* C13: every turn takes the "Query Files" case, whatever mode argument it
\* is given and whatever the active mode is, and its backend call has
\* use_context = True; a step of a turn leaves the active mode, the system
\* prompt and the selected file name unchanged; only _set_current_mode
\* changes the active mode.
C13_AlwaysQueryFiles ==
    /\ [](turn.pc # "idle" =>
              /\ turn.mode = "Query Files"
              /\ turn.backend_calls > 0 => turn.use_context)
    /\ [][/\ turn' # turn => UNCHANGED <<mode, _system_prompt, _selected_filename>>
          /\ mode' # mode => lastCall'.op = "_set_current_mode"]_vars

\* A turn given the chat mode while the active mode is "Search Files"
C13_Witness ==
    /\ JustCalled
    /\ lastCall.arg.mode = "LLM Chat (no context from files)"
    /\ mode = "Search Files"
    /\ turn.mode = "Query Files"
    /\ turn.use_context

----------------------------------------------------------------------------
(* One session for every client (SpecShared) *)

\* C16: the session is one for all clients: the turn of a client is built
\* from the system prompt and the selected file as they are when it is
\* called, also when they were last written (by _set_current_mode,
\* _set_system_prompt, a select or a deselect) for another client: its
\* system message is that prompt and its filter is that file's records.
C16_SharedSession ==
    JustCalled =>
        LET all == turn.all_messages
            matching == SelectSeq(store, LAMBDA r : Named(r, _selected_filename))
        IN  /\ _system_prompt # EmptyText => all[1] = ChatMessage(_system_prompt, SYSTEM)
            /\ _system_prompt = EmptyText => all[1].role # SYSTEM
            /\ _selected_filename = None => turn.context_filter = NoFilter
            /\ _selected_filename # None =>
                   turn.context_filter
                       = ContextFilter([i \in 1..Len(matching) |-> matching[i].doc_id])

\* The turn of B after A has set the prompt and selected a file
C16_Witness ==
    /\ JustCalled
    /\ caller_of.turn = "B"
    /\ caller_of.prompt = "A"
    /\ caller_of.selection = "A"
    /\ turn.all_messages[1] = ChatMessage(CustomPrompt, SYSTEM)
    /\ turn.context_filter = ContextFilter(<< 1 >>)

----------------------------------------------------------------------------
(* Source Curator (SpecCurate) *)

\* The index of the first occurrence of x in s
FirstIndex(s, x) == CHOOSE i \in 1..Len(s) : s[i] = x /\ \A j \in 1..(i - 1) : s[j] # x

\* C9: what curate_sources returns has no two equal (file, page, text),
\* holds every (file, page, text) of its input, and is ordered by first
\* occurrence in the input.
C9_CuratedUniqueInOrder ==
    lastCall.op = "curate_sources" =>
        LET out == lastCall.ret.curated_sources
            given == [i \in 1..Len(sources) |-> SourceOf(sources[i])]
        IN  /\ \A i, j \in 1..Len(out) : i # j => out[i] # out[j]
            /\ Range(out) = Range(given)
            /\ \A i, j \in 1..Len(out) :
                   i < j => FirstIndex(given, out[i]) < FirstIndex(given, out[j])

C9_Witness ==
    /\ lastCall.op = "curate_sources"
    /\ Len(sources) = 3
    /\ SourceOf(sources[1]) = SourceOf(sources[3])
    /\ SourceOf(sources[1]) # SourceOf(sources[2])
    /\ Len(lastCall.ret.curated_sources) = 2

====
